---- MODULE Spec2Model ----
(***************************************************************************)
(* A model of eventbus::EventBus (src/eventbus.hpp): the registry          *)
(* callbacks_map_, the id counter next_id_, the reader/writer lock mutex_, *)
(* the type-erased CallbackWrapper::try_invoke and the operations of the   *)
(* bus, each split at the points where another thread can interleave.      *)
(***************************************************************************)
EXTENDS Integers, Sequences, FiniteSets, Bags

\* ------------------------------------------------------------------ bounds

\* Threads of the concurrent specification (thread_safety_test starts 4).
NumThreads == 2
\* Subscriptions issued in the sequential registry specification.
MaxId == 3
\* Subscriptions issued in the argument matching specification.
MaxMatchSubs == 2
\* Publishes of one thread in the concurrent specification (250 in the test).
EventsPerThread == 2
\* Subscriptions issued in the raising callback specification.
MaxThrowSubs == 2
\* Subscriptions to temp_event in the concurrent specification.
MaxTempSubs == 2

Threads == 1..NumThreads

\* ------------------------------------------------------------------- values

\* A published value after std::decay_t, or a value a callback receives:
\* its C++ type, and its number or its text.
IntV(n)    == [type |-> "int", num |-> n, text |-> ""]
DoubleV(n) == [type |-> "double", num |-> n, text |-> ""]
LitV(s)    == [type |-> "const char*", num |-> 0, text |-> s]
StrV(s)    == [type |-> "std::string", num |-> 0, text |-> s]
\* A value of a class type T (a map, a tuple, a struct); s names its content.
ObjV(T, s) == [type |-> T, num |-> 0, text |-> s]

\* A decay that removes const and & from std::string and int only.
Decay_StringAndIntOnly(T) ==
  CASE T = "const std::string&" -> "std::string"
    [] T = "const int&" -> "int"
    [] OTHER -> T

\* std::decay_t of a declared parameter type.
Decay(T) ==
  CASE T = "const std::string&" -> "std::string"
    [] T = "const int&" -> "int"
    [] T = "const std::map<std::string, std::vector<int>>&"
         -> "std::map<std::string, std::vector<int>>"
    [] T = "const std::tuple<int, double, std::string>&"
         -> "std::tuple<int, double, std::string>"
    [] T = "const TradeTicket&" -> "TradeTicket"
    [] OTHER -> T

\* map_to_source_type without its std::string specializations.
MapToSourceType_NoStringSpecialization(T) ==
  CASE T = "const int&" -> "int"
    [] OTHER -> Decay(T)

\* map_to_source_type<TargetType>::type
MapToSourceType(T) ==
  CASE T = "std::string" -> "const char*"
    [] T = "const std::string&" -> "const char*"
    [] T = "const int&" -> "int"
    [] OTHER -> Decay(T)

\* std::is_convertible_v<SourceType, DecayedTarget> on the modelled types.
IsConvertible(S, D) ==
  \/ S = D
  \/ S \in {"int", "double"} /\ D \in {"int", "double"}
  \/ S = "const char*" /\ D = "std::string"

\* convert_parameter<TargetType>(source)
ConvertParameter(T, source) ==
  LET D == Decay(T) IN
  IF D = source.type THEN source
  ELSE IF D = "std::string" /\ source.type = "const char*"
    THEN [type |-> "std::string", num |-> 0, text |-> source.text]
  ELSE IF IsConvertible(source.type, D)
    THEN [type |-> D, num |-> source.num, text |-> source.text]
  ELSE [type |-> D, num |-> 0, text |-> ""]

\* The type std::any holds after std::make_tuple(std::decay_t<Args>(args)...);
\* the empty sequence stands for the empty std::any of a publish without
\* arguments.
BundleType(args) == [i \in 1..Len(args) |-> args[i].type]

\* The tuple types try_invoke casts the bundle to.
ExactTuple(sig)   == sig
DecayedTuple(sig) == [i \in 1..Len(sig) |-> Decay(sig[i])]
SourceTuple(sig)  == [i \in 1..Len(sig) |-> MapToSourceType(sig[i])]

\* invoke_with_conversion: the values the callback is called with.
InvokeWithConversion(sig, args) ==
  [i \in 1..Len(sig) |-> ConvertParameter(sig[i], args[i])]

\* What the body of a callback of the given kind throws.
Throws(kind) ==
  CASE kind = "throw" -> "std::exception"
    [] kind = "throw_other" -> "other"
    [] OTHER -> "none"

\* The outcome of an attempt on a wrapper: whether callback_ was entered
\* and how many times, the bool returned, the values callback_ was called
\* with, and the exception that leaves the function, "none" when it
\* returns.
NoMatch == [invoked |-> FALSE, calls |-> 0, result |-> FALSE, vals |-> <<>>,
            thrown |-> "none"]

\* std::apply(callback_, ...); return true;
Invoke(w, vals) ==
  [invoked |-> TRUE, calls |-> 1, result |-> (Throws(w.kind) = "none"),
   vals |-> vals, thrown |-> Throws(w.kind)]

\* catch (...) { } followed by return false.
CatchAll(r) ==
  IF r.thrown # "none"
    THEN [r EXCEPT !.result = FALSE, !.thrown = "none"]
    ELSE r

\* try_parameter_conversion
TryParameterConversion(w, args) ==
  IF SourceTuple(w.sig) = BundleType(args)
    THEN CatchAll(Invoke(w, InvokeWithConversion(w.sig, args)))
    ELSE NoMatch

\* The try block of try_invoke without the loose match on DecayedArgs.
TryBlock_NoLooseMatch(w, args) ==
  IF Len(w.sig) = 0 THEN Invoke(w, <<>>)
  ELSE IF ExactTuple(w.sig) = BundleType(args) THEN Invoke(w, args)
  ELSE TryParameterConversion(w, args)

\* The try block of try_invoke with a try/catch around each path of its
\* own: a callback that raised on the exact match is tried again on the
\* loose match.
TryBlock_RetriesAfterThrow(w, args) ==
  IF Len(w.sig) = 0 THEN Invoke(w, <<>>)
  ELSE IF ExactTuple(w.sig) = BundleType(args)
    THEN IF Throws(w.kind) # "none" /\ DecayedTuple(w.sig) = BundleType(args)
           THEN [Invoke(w, args) EXCEPT !.calls = 2]
           ELSE Invoke(w, args)
  ELSE IF DecayedTuple(w.sig) = BundleType(args) THEN Invoke(w, args)
  ELSE TryParameterConversion(w, args)

\* The try block of try_invoke.
TryBlock(w, args) ==
  IF Len(w.sig) = 0 THEN Invoke(w, <<>>)
  ELSE IF ExactTuple(w.sig) = BundleType(args) THEN Invoke(w, args)
  ELSE IF DecayedTuple(w.sig) = BundleType(args) THEN Invoke(w, args)
  ELSE TryParameterConversion(w, args)

\* try_invoke without its catch (...).
TryInvoke_NoCatch(w, args) == TryBlock(w, args)

\* CallbackWrapper::try_invoke
TryInvoke(w, args) == CatchAll(TryBlock(w, args))

\* ----------------------------------------------------------------- state

VARIABLES
  callbacks_map_,    \* the unordered_map in iteration order: a sequence of
                     \* pairs [first |-> event name, second |-> wrappers]
  next_id_,          \* std::atomic<callback_id> next_id_
  mutex_shared,      \* mutex_: the shared (reader) locks each thread holds
  pc,                \* where each thread is inside a call
  call,              \* the call each thread is in, with its arguments
  it,                \* publish: position of the range-for in it->second
  invoked,           \* publish: the callbacks entered so far, with values
  successful_calls,  \* publish: int successful_calls
  counter,           \* std::atomic<int> counter of thread_safety_test
  published,         \* publish calls each thread has completed
  ret,               \* the call that returned last, with what it returned
  issued,            \* history: the ids subscribe returned, in order
  unsub_true,        \* history: the bag of the (event, id) unsubscribe
                     \* returned true for
  cleared,           \* history: clear has returned and no subscribe since
  mutator,           \* the mutating call each thread has begun and that waits
                     \* for the unique lock (used where a callback calls the bus)
  bus                \* two more buses, one constructed with verbose logging
                     \* and one without, that are given the same calls

vars == <<callbacks_map_, next_id_, mutex_shared, pc, call, it, invoked,
          successful_calls, counter, published, ret, issued, unsub_true,
          cleared, mutator, bus>>

NoCall == [op |-> "none", eventName |-> "", id |-> 0, sig |-> <<>>,
           kind |-> "", args |-> <<>>, min_subscribers |-> 0]

MkCall(op, e, id, sig, kind, args, min) ==
  [op |-> op, eventName |-> e, id |-> id, sig |-> sig, kind |-> kind,
   args |-> args, min_subscribers |-> min]

\* What a returned call leaves for its caller to see.
MkRet(c, value, log) == [call |-> c, value |-> value, invoked |-> log]

\* ------------------------------------------------------- the registry map

\* callbacks_map_.find(eventName): the position of the entry, 0 for end().
Find(m, e) ==
  IF \E i \in 1..Len(m) : m[i].first = e
    THEN CHOOSE i \in 1..Len(m) : m[i].first = e
    ELSE 0

\* The vector of the first entry of the map, whatever the event name.
Second_FirstEntry(m, e) == IF m = <<>> THEN <<>> ELSE m[1].second

\* it->second of the entry found, the empty vector when there is none.
Second(m, e) == IF Find(m, e) = 0 THEN <<>> ELSE m[Find(m, e)].second

\* The sequence s with x put at position p.
InsertAt(s, p, x) ==
  [i \in 1..(Len(s) + 1) |->
     IF i < p THEN s[i] ELSE IF i = p THEN x ELSE s[i - 1]]

\* Removal that moves the last element into the place of the removed one.
RemoveAt_SwapLast(s, p) ==
  [i \in 1..(Len(s) - 1) |-> IF i = p THEN s[Len(s)] ELSE s[i]]

\* The sequence s without its element at position p.
RemoveAt(s, p) ==
  [i \in 1..(Len(s) - 1) |-> IF i < p THEN s[i] ELSE s[i + 1]]

\* Where operator[] may put a new key in the iteration order of the
\* unordered_map (the standard leaves it to the implementation).
InsertPositions(m, e) == IF Find(m, e) = 0 THEN 1..(Len(m) + 1) ELSE {1}

\* Insertion of the wrapper at the front of the vector of the event.
PushBack_Front(m, e, w, p) ==
  IF Find(m, e) = 0
    THEN InsertAt(m, p, [first |-> e, second |-> <<w>>])
    ELSE [m EXCEPT ![Find(m, e)].second = <<w>> \o @]

\* callbacks_map_[eventName].push_back(wrapper), a new key going to place p.
PushBack(m, e, w, p) ==
  IF Find(m, e) = 0
    THEN InsertAt(m, p, [first |-> e, second |-> <<w>>])
    ELSE [m EXCEPT ![Find(m, e)].second = Append(@, w)]

\* std::find_if over the vector for wrapper->get_id() == id: 0 for end().
FindId(v, id) ==
  IF \E i \in 1..Len(v) : v[i].id = id
    THEN CHOOSE i \in 1..Len(v) :
           v[i].id = id /\ \A j \in 1..(i - 1) : v[j].id # id
    ELSE 0

\* UnsubscribeResult searching the id in every event's vector, not only in
\* the one of eventName.
UnsubscribeResult_AnyEvent(m, e, id) ==
  IF \E i \in 1..Len(m) : FindId(m[i].second, id) # 0
    THEN [map |-> [m EXCEPT
                     ![CHOOSE i \in 1..Len(m) : FindId(m[i].second, id) # 0]
                        .second = RemoveAt(@, FindId(@, id))],
          result |-> TRUE]
    ELSE [map |-> m, result |-> FALSE]

\* UnsubscribeResult without the callback_it != callbacks.end() test.
UnsubscribeResult_NoEndTest(m, e, id) ==
  IF Find(m, e) = 0 THEN [map |-> m, result |-> FALSE]
  ELSE IF FindId(m[Find(m, e)].second, id) # 0
    THEN [map |-> [m EXCEPT ![Find(m, e)].second =
                     RemoveAt(@, FindId(@, id))],
          result |-> TRUE]
    ELSE [map |-> m, result |-> TRUE]

\* unsubscribe erasing the last wrapper of the event when the id is not
\* found in its vector.
UnsubscribeResult_ErasesOnMiss(m, e, id) ==
  IF Find(m, e) = 0 THEN [map |-> m, result |-> FALSE]
  ELSE IF FindId(m[Find(m, e)].second, id) # 0
    THEN [map |-> [m EXCEPT ![Find(m, e)].second =
                     RemoveAt(@, FindId(@, id))],
          result |-> TRUE]
    ELSE [map |-> [m EXCEPT ![Find(m, e)].second =
                     IF @ = <<>> THEN @ ELSE RemoveAt(@, Len(@))],
          result |-> FALSE]

\* EventBus::unsubscribe: [map, result].
UnsubscribeResult(m, e, id) ==
  IF Find(m, e) = 0 THEN [map |-> m, result |-> FALSE]
  ELSE IF FindId(m[Find(m, e)].second, id) # 0
    THEN [map |-> [m EXCEPT ![Find(m, e)].second =
                     RemoveAt(@, FindId(@, id))],
          result |-> TRUE]
    ELSE [map |-> m, result |-> FALSE]

\* unsubscribe_all erasing every entry of the map once the event is found.
UnsubscribeAllResult_ClearsAll(m, e) ==
  IF Find(m, e) = 0 THEN [map |-> m, result |-> 0]
  ELSE [map |-> <<>>, result |-> Len(m[Find(m, e)].second)]

\* EventBus::unsubscribe_all: [map, result].
UnsubscribeAllResult(m, e) ==
  IF Find(m, e) = 0 THEN [map |-> m, result |-> 0]
  ELSE [map |-> RemoveAt(m, Find(m, e)),
        result |-> Len(m[Find(m, e)].second)]

\* EventBus::isEventRegistered
IsEventRegistered(m, e) == Find(m, e) # 0 /\ m[Find(m, e)].second # <<>>

\* EventBus::getCallbackCount
GetCallbackCount(m, e) ==
  IF Find(m, e) # 0 THEN Len(m[Find(m, e)].second) ELSE 0

\* The loop of getAllEventNames without the !pair.second.empty() test.
RECURSIVE EventNamesUpTo_NoEmptyTest(_, _)
EventNamesUpTo_NoEmptyTest(m, n) ==
  IF n = 0 THEN <<>>
  ELSE Append(EventNamesUpTo_NoEmptyTest(m, n - 1), m[n].first)

\* EventBus::getAllEventNames: the loop over the first n pairs of the map.
RECURSIVE EventNamesUpTo(_, _)
EventNamesUpTo(m, n) ==
  IF n = 0 THEN <<>>
  ELSE IF m[n].second # <<>>
    THEN Append(EventNamesUpTo(m, n - 1), m[n].first)
    ELSE EventNamesUpTo(m, n - 1)

GetAllEventNames(m) == EventNamesUpTo(m, Len(m))

\* The loop of getStats with the maximum updated on >= instead of on >,
\* and so also by an entry without callbacks.
RECURSIVE StatsUpTo_LastWins(_, _)
StatsUpTo_LastWins(m, n) ==
  IF n = 0
    THEN [total_events |-> 0, total_callbacks |-> 0,
          max_callbacks_per_event |-> 0, most_subscribed_event |-> ""]
  ELSE LET stats == StatsUpTo_LastWins(m, n - 1)
           callback_count == Len(m[n].second)
       IN [total_events |->
             stats.total_events + (IF m[n].second # <<>> THEN 1 ELSE 0),
           total_callbacks |-> stats.total_callbacks + callback_count,
           max_callbacks_per_event |->
             IF callback_count >= stats.max_callbacks_per_event
               THEN callback_count
               ELSE stats.max_callbacks_per_event,
           most_subscribed_event |-> m[n].first]

\* EventBus::getStats: the loop over the first n pairs of the map.
RECURSIVE StatsUpTo(_, _)
StatsUpTo(m, n) ==
  IF n = 0
    THEN [total_events |-> 0, total_callbacks |-> 0,
          max_callbacks_per_event |-> 0, most_subscribed_event |-> ""]
  ELSE LET stats == StatsUpTo(m, n - 1)
           callback_count == Len(m[n].second)
       IN IF m[n].second # <<>>
            THEN [total_events |-> stats.total_events + 1,
                  total_callbacks |-> stats.total_callbacks + callback_count,
                  max_callbacks_per_event |->
                    IF callback_count > stats.max_callbacks_per_event
                      THEN callback_count
                      ELSE stats.max_callbacks_per_event,
                  most_subscribed_event |->
                    IF callback_count > stats.max_callbacks_per_event
                      THEN m[n].first
                      ELSE stats.most_subscribed_event]
            ELSE stats

GetStats(m) == StatsUpTo(m, Len(m))

\* The check with size() <= min_subscribers in place of <.
MinSubscribersCheck_OffByOne(m, e, min) ==
  ~ (Find(m, e) = 0 \/ Len(m[Find(m, e)].second) <= min)

\* publish_if_min_subscribers: the check made under the shared lock.
MinSubscribersCheck(m, e, min) ==
  ~ (Find(m, e) = 0 \/ Len(m[Find(m, e)].second) < min)


\* ------------------------------------------------------------ the mutex

\* A unique_lock that does not wait for the holders of the shared lock.
CanLockUnique_IgnoresReaders == TRUE

\* std::unique_lock<std::shared_mutex> can be taken: no thread holds the
\* mutex shared.  A writer holds it within one step only.
CanLockUnique == \A u \in Threads : mutex_shared[u] = 0

\* ------------------------------------------------------------- subscribe

\* SubscribeId taking the id from the number of subscriptions the registry
\* holds instead of from the atomic counter.
SubscribeId_CountsSubscriptions(t, e, sig, kind) ==
  LET n == Cardinality(UNION { { <<i, j>> :
                                  j \in 1..Len(callbacks_map_[i].second) } :
                               i \in 1..Len(callbacks_map_) })
  IN /\ pc[t] = "idle"
     /\ next_id_' = n + 1
     /\ call' = [call EXCEPT
          ![t] = MkCall("subscribe", e, n + 1, sig, kind, <<>>, 0)]
     /\ pc' = [pc EXCEPT ![t] = "subscribe_lock"]
     /\ UNCHANGED <<callbacks_map_, mutex_shared, it, invoked,
                    successful_calls, counter, published, ret, issued,
                    unsub_true, cleared, mutator, bus>>

\* SubscribeId with a post-increment: callback_id id = next_id_++.
SubscribeId_PostIncrement(t, e, sig, kind) ==
  /\ pc[t] = "idle"
  /\ next_id_' = next_id_ + 1
  /\ call' = [call EXCEPT
       ![t] = MkCall("subscribe", e, next_id_, sig, kind, <<>>, 0)]
  /\ pc' = [pc EXCEPT ![t] = "subscribe_lock"]
  /\ UNCHANGED <<callbacks_map_, mutex_shared, it, invoked,
                 successful_calls, counter, published, ret, issued,
                 unsub_true, cleared, mutator, bus>>

\* SubscribeId with the increment lost: callback_id id = next_id_ + 1.
SubscribeId_NoIncrement(t, e, sig, kind) ==
  /\ pc[t] = "idle"
  /\ call' = [call EXCEPT
       ![t] = MkCall("subscribe", e, next_id_ + 1, sig, kind, <<>>, 0)]
  /\ pc' = [pc EXCEPT ![t] = "subscribe_lock"]
  /\ UNCHANGED <<callbacks_map_, next_id_, mutex_shared, it, invoked,
                 successful_calls, counter, published, ret, issued,
                 unsub_true, cleared, mutator, bus>>

\* subscribe, up to the wrapper being built: callback_id id = ++next_id_.
SubscribeId(t, e, sig, kind) ==
  /\ pc[t] = "idle"
  /\ next_id_' = next_id_ + 1
  /\ call' = [call EXCEPT
       ![t] = MkCall("subscribe", e, next_id_ + 1, sig, kind, <<>>, 0)]
  /\ pc' = [pc EXCEPT ![t] = "subscribe_lock"]
  /\ UNCHANGED <<callbacks_map_, mutex_shared, it, invoked, successful_calls,
                 counter, published, ret, issued, unsub_true, cleared,
                 mutator, bus>>

\* subscribe, from the unique_lock on: push_back under the lock, return id.
SubscribeInsert(t) ==
  /\ pc[t] = "subscribe_lock"
  /\ CanLockUnique
  /\ \E p \in InsertPositions(callbacks_map_, call[t].eventName) :
       callbacks_map_' =
         PushBack(callbacks_map_, call[t].eventName,
                  [id |-> call[t].id, sig |-> call[t].sig,
                   kind |-> call[t].kind], p)
  /\ ret' = MkRet(call[t], call[t].id, <<>>)
  /\ issued' = Append(issued, call[t].id)
  /\ cleared' = FALSE
  /\ call' = [call EXCEPT ![t] = NoCall]
  /\ pc' = [pc EXCEPT ![t] = "idle"]
  /\ UNCHANGED <<next_id_, mutex_shared, it, invoked, successful_calls,
                 counter, published, unsub_true, mutator, bus>>

\* ----------------------------------------------------------- unsubscribe

Unsubscribe(t, e, id) ==
  /\ pc[t] = "idle"
  /\ CanLockUnique
  /\ LET r == UnsubscribeResult(callbacks_map_, e, id) IN
       /\ callbacks_map_' = r.map
       /\ ret' = MkRet(MkCall("unsubscribe", e, id, <<>>, "", <<>>, 0),
                       r.result, <<>>)
       /\ unsub_true' =
            IF r.result THEN unsub_true (+) SetToBag({<<e, id>>})
            ELSE unsub_true
  /\ UNCHANGED <<next_id_, mutex_shared, pc, call, it, invoked,
                 successful_calls, counter, published, issued, cleared,
                 mutator, bus>>

UnsubscribeAll(t, e) ==
  /\ pc[t] = "idle"
  /\ CanLockUnique
  /\ LET r == UnsubscribeAllResult(callbacks_map_, e) IN
       /\ callbacks_map_' = r.map
       /\ ret' = MkRet(MkCall("unsubscribe_all", e, 0, <<>>, "", <<>>, 0),
                       r.result, <<>>)
  /\ UNCHANGED <<next_id_, mutex_shared, pc, call, it, invoked,
                 successful_calls, counter, published, issued,
                 unsub_true, cleared, mutator, bus>>

\* clear keeping the entries after the first one.
Clear_KeepsRest(t) ==
  /\ pc[t] = "idle"
  /\ CanLockUnique
  /\ callbacks_map_' = IF callbacks_map_ = <<>> THEN <<>>
                       ELSE Tail(callbacks_map_)
  /\ ret' = MkRet(MkCall("clear", "", 0, <<>>, "", <<>>, 0), "void", <<>>)
  /\ cleared' = TRUE
  /\ UNCHANGED <<next_id_, mutex_shared, pc, call, it, invoked,
                 successful_calls, counter, published, issued, unsub_true,
                 mutator, bus>>

\* EventBus::clear
Clear(t) ==
  /\ pc[t] = "idle"
  /\ CanLockUnique
  /\ callbacks_map_' = <<>>
  /\ ret' = MkRet(MkCall("clear", "", 0, <<>>, "", <<>>, 0), "void", <<>>)
  /\ cleared' = TRUE
  /\ UNCHANGED <<next_id_, mutex_shared, pc, call, it, invoked,
                 successful_calls, counter, published, issued, unsub_true,
                 mutator, bus>>

\* --------------------------------------------------- read-only queries

\* A query takes the shared lock, reads and returns within one step.
\* A query that looks the event up with operator[], which inserts a key
\* that is absent.
Query_InsertsKey(t, op, e, value) ==
  /\ pc[t] = "idle"
  /\ ret' = MkRet(MkCall(op, e, 0, <<>>, "", <<>>, 0), value, <<>>)
  /\ callbacks_map_' =
       IF e # "" /\ Find(callbacks_map_, e) = 0
         THEN Append(callbacks_map_, [first |-> e, second |-> <<>>])
         ELSE callbacks_map_
  /\ UNCHANGED <<next_id_, mutex_shared, pc, call, it,
                 invoked, successful_calls, counter, published, issued,
                 unsub_true, cleared, mutator, bus>>

Query(t, op, e, value) ==
  /\ pc[t] = "idle"
  /\ ret' = MkRet(MkCall(op, e, 0, <<>>, "", <<>>, 0), value, <<>>)
  /\ UNCHANGED <<callbacks_map_, next_id_, mutex_shared, pc, call, it,
                 invoked, successful_calls, counter, published, issued,
                 unsub_true, cleared, mutator, bus>>

IsEventRegisteredCall(t, e) ==
  Query(t, "isEventRegistered", e, IsEventRegistered(callbacks_map_, e))

GetCallbackCountCall(t, e) ==
  Query(t, "getCallbackCount", e, GetCallbackCount(callbacks_map_, e))

GetAllEventNamesCall(t) ==
  Query(t, "getAllEventNames", "", GetAllEventNames(callbacks_map_))

GetStatsCall(t) ==
  Query(t, "getStats", "", GetStats(callbacks_map_))

\* --------------------------------------------------------------- publish

\* What publish returns to the caller of the call c it serves.
PublishValue(c) ==
  IF c.op = "publish_if_min_subscribers" THEN TRUE ELSE "void"

\* publish, from the shared_lock to the first wrapper: the early return for
\* an unknown or empty event, else the bundle is built and the loop starts.
PublishEnter(t, c) ==
  IF \/ Find(callbacks_map_, c.eventName) = 0
     \/ Second(callbacks_map_, c.eventName) = <<>>
    THEN /\ ret' = MkRet(c, PublishValue(c), <<>>)
         /\ call' = [call EXCEPT ![t] = NoCall]
         /\ pc' = [pc EXCEPT ![t] = "idle"]
         /\ UNCHANGED <<mutex_shared, it>>
    ELSE /\ mutex_shared' = [mutex_shared EXCEPT ![t] = @ + 1]
         /\ call' = [call EXCEPT ![t] = c]
         /\ pc' = [pc EXCEPT ![t] = "publish_loop"]
         /\ it' = [it EXCEPT ![t] = 1]
         /\ UNCHANGED ret

PublishBegin(t, e, args) ==
  /\ pc[t] = "idle"
  /\ PublishEnter(t, MkCall("publish", e, 0, <<>>, "", args, 0))
  /\ UNCHANGED <<callbacks_map_, next_id_, invoked, successful_calls,
                 counter, published, issued, unsub_true, cleared,
                 mutator, bus>>

\* The callback body: the counter callback of thread_safety_test adds the
\* published value, the others have no effect on the bus.
CallbackEffect(w, r) ==
  IF r.invoked /\ w.kind = "count" THEN counter + r.vals[1].num ELSE counter

\* One turn of the range-for of publish: try_invoke on the wrapper at `it`.
\* An exception that is no std::exception leaves publish, whose locals are
\* destroyed; after the last wrapper the shared lock is released and
\* publish returns.
PublishInvoke(t) ==
  /\ pc[t] = "publish_loop"
  /\ LET v == Second(callbacks_map_, call[t].eventName)
         w == v[it[t]]
         r == TryInvoke(w, call[t].args)
         log == invoked[t]
                  \o [k \in 1..r.calls |-> [id |-> w.id, vals |-> r.vals]]
     IN /\ counter' = CallbackEffect(w, r)
        /\ IF it[t] < Len(v) /\ r.thrown # "other"
             THEN /\ it' = [it EXCEPT ![t] = @ + 1]
                  /\ invoked' = [invoked EXCEPT ![t] = log]
                  /\ successful_calls' =
                       [successful_calls EXCEPT
                          ![t] = IF r.result THEN @ + 1 ELSE @]
                  /\ UNCHANGED <<mutex_shared, pc, call, ret>>
             ELSE /\ mutex_shared' = [mutex_shared EXCEPT ![t] = @ - 1]
                  /\ ret' = MkRet(call[t],
                                  IF r.thrown = "other"
                                    THEN "exception"
                                    ELSE PublishValue(call[t]),
                                  log)
                  /\ it' = [it EXCEPT ![t] = 0]
                  /\ invoked' = [invoked EXCEPT ![t] = <<>>]
                  /\ successful_calls' = [successful_calls EXCEPT ![t] = 0]
                  /\ call' = [call EXCEPT ![t] = NoCall]
                  /\ pc' = [pc EXCEPT ![t] = "idle"]
  /\ UNCHANGED <<callbacks_map_, next_id_, published, issued, unsub_true,
                 cleared, mutator, bus>>

\* The check of publish_if_min_subscribers without lock.unlock(): the
\* shared lock is kept for the publish that follows.
PublishIfMinCheck_KeepsLock(t, e, min, args) ==
  /\ pc[t] = "idle"
  /\ LET c == MkCall("publish_if_min_subscribers", e, 0, <<>>, "", args, min)
     IN IF MinSubscribersCheck(callbacks_map_, e, min)
          THEN /\ call' = [call EXCEPT ![t] = c]
               /\ pc' = [pc EXCEPT ![t] = "min_unlocked"]
               /\ mutex_shared' = [mutex_shared EXCEPT ![t] = @ + 1]
               /\ UNCHANGED ret
          ELSE /\ ret' = MkRet(c, FALSE, <<>>)
               /\ UNCHANGED <<call, pc, mutex_shared>>
  /\ UNCHANGED <<callbacks_map_, next_id_, it, invoked,
                 successful_calls, counter, published, issued,
                 unsub_true, cleared, mutator, bus>>

\* publish_if_min_subscribers, up to lock.unlock(): the check under the
\* shared lock; false is returned at once, else the lock is given up.
PublishIfMinCheck(t, e, min, args) ==
  /\ pc[t] = "idle"
  /\ LET c == MkCall("publish_if_min_subscribers", e, 0, <<>>, "", args, min)
     IN IF MinSubscribersCheck(callbacks_map_, e, min)
          THEN /\ call' = [call EXCEPT ![t] = c]
               /\ pc' = [pc EXCEPT ![t] = "min_unlocked"]
               /\ UNCHANGED ret
          ELSE /\ ret' = MkRet(c, FALSE, <<>>)
               /\ UNCHANGED <<call, pc>>
  /\ UNCHANGED <<callbacks_map_, next_id_, mutex_shared, it, invoked,
                 successful_calls, counter, published, issued,
                 unsub_true, cleared, mutator, bus>>

\* publish_if_min_subscribers, the publish after the unlock; true is
\* returned when that publish returns.
PublishIfMinPublish(t) ==
  /\ pc[t] = "min_unlocked"
  /\ PublishEnter(t, call[t])
  /\ UNCHANGED <<callbacks_map_, next_id_, invoked, successful_calls,
                 counter, published, issued, unsub_true, cleared,
                 mutator, bus>>


\* ------------------------------------------------------ specifications

NoRet == MkRet(NoCall, "void", <<>>)

\* explicit EventBus(bool verbose_logging): a bus of its own, with the
\* diagnostics its last call wrote and what that call returned.
NewBus(verbose_logging) ==
  [verbose_logging_ |-> verbose_logging, callbacks_map_ |-> <<>>,
   next_id_ |-> 0, cout |-> <<>>, ret |-> NoRet]

\* EventBus loud(true); EventBus quiet(false);
BusIds == {"loud", "quiet"}
NewBuses == [b \in BusIds |-> NewBus(b = "loud")]

\* The bus after construction: EventBus bus;
Init ==
  /\ callbacks_map_ = <<>>
  /\ next_id_ = 0
  /\ mutex_shared = [t \in Threads |-> 0]
  /\ pc = [t \in Threads |-> "idle"]
  /\ call = [t \in Threads |-> NoCall]
  /\ it = [t \in Threads |-> 0]
  /\ invoked = [t \in Threads |-> <<>>]
  /\ successful_calls = [t \in Threads |-> 0]
  /\ counter = 0
  /\ published = [t \in Threads |-> 0]
  /\ ret = NoRet
  /\ issued = <<>>
  /\ unsub_true = EmptyBag
  /\ cleared = FALSE
  /\ mutator = [t \in Threads |-> NoCall]
  /\ bus = NewBuses

\* One caller using every operation of the bus on two events, all
\* subscribers taking one int (the registry tests of main in test_full.cpp).
Events     == {"x", "y"}
QueryNames == Events \cup {"nonexistent"}
IntSig     == <<"int">>
RegArgs    == <<IntV(5)>>
MinCounts  == 0..2

MainSubscribe ==
  \E e \in Events : next_id_ < MaxId /\ SubscribeId(1, e, IntSig, "ok")
MainSubscribeInsert == SubscribeInsert(1)
MainUnsubscribe == \E e \in QueryNames, id \in 1..MaxId : Unsubscribe(1, e, id)
MainUnsubscribeAll == \E e \in QueryNames : UnsubscribeAll(1, e)
MainClear == Clear(1)
MainIsEventRegistered == \E e \in QueryNames : IsEventRegisteredCall(1, e)
MainGetCallbackCount == \E e \in QueryNames : GetCallbackCountCall(1, e)
MainGetAllEventNames == GetAllEventNamesCall(1)
MainGetStats == GetStatsCall(1)
MainPublish == \E e \in QueryNames : PublishBegin(1, e, RegArgs)
MainPublishInvoke == PublishInvoke(1)
MainPublishIfMin ==
  \E e \in QueryNames, min \in MinCounts :
    PublishIfMinCheck(1, e, min, RegArgs)
MainPublishIfMinPublish == PublishIfMinPublish(1)

Next ==
  \/ MainSubscribe
  \/ MainSubscribeInsert
  \/ MainUnsubscribe
  \/ MainUnsubscribeAll
  \/ MainClear
  \/ MainIsEventRegistered
  \/ MainGetCallbackCount
  \/ MainGetAllEventNames
  \/ MainGetStats
  \/ MainPublish
  \/ MainPublishInvoke
  \/ MainPublishIfMin
  \/ MainPublishIfMinPublish

Spec == Init /\ [][Next]_vars

\* One caller subscribing callbacks of different signatures to one event
\* and publishing argument lists of different types (simple_test.cpp and
\* tests 2, 3 and 7 of test_full.cpp).
MatchEvent == "add"
\* The class types of test_complex_types.cpp.
ComplexTypes ==
  { "std::map<std::string, std::vector<int>>",
    "std::tuple<int, double, std::string>",
    "TradeTicket" }
ComplexSigs ==
  { <<"const std::map<std::string, std::vector<int>>&">>,
    <<"const std::tuple<int, double, std::string>&">>,
    <<"const TradeTicket&">> }
ComplexArgs == { <<ObjV(T, "payload")>> : T \in ComplexTypes }

\* NotificationService's subscriber of user_status_changed and what
\* UserManager::onUserLogin publishes to it (example_simple.cpp).
StatusSig  == <<"const std::string&", "const std::string&">>
StatusArgs == <<StrV("alice"), LitV("online")>>

MatchSigs ==
  { <<>>, <<"int">>, <<"int", "int">>, <<"double">>,
    <<"const std::string&">>, <<"std::string">>,
    <<"const std::string&", "const std::string&", "int">> }
    \cup ComplexSigs \cup {StatusSig}
MatchArgs ==
  { <<>>, <<IntV(1)>>, <<IntV(5), IntV(3)>>, <<IntV(1), IntV(2), IntV(3)>>,
    <<DoubleV(2)>>, <<LitV("World")>>, <<StrV("World")>>,
    <<LitV("Write docs"), LitV("Bob"), IntV(5)>>,
    <<StrV("Write docs"), LitV("Bob"), IntV(5)>> }
    \cup ComplexArgs \cup {StatusArgs}

MatchSubscribe ==
  \E sig \in MatchSigs :
    next_id_ < MaxMatchSubs /\ SubscribeId(1, MatchEvent, sig, "ok")
MatchSubscribeInsert == SubscribeInsert(1)
MatchUnsubscribe == \E id \in 1..MaxMatchSubs : Unsubscribe(1, MatchEvent, id)
MatchPublish == \E args \in MatchArgs : PublishBegin(1, MatchEvent, args)
MatchPublishInvoke == PublishInvoke(1)

NextMatch ==
  \/ MatchSubscribe
  \/ MatchSubscribeInsert
  \/ MatchUnsubscribe
  \/ MatchPublish
  \/ MatchPublishInvoke

SpecMatch == Init /\ [][NextMatch]_vars

\* One caller subscribing callbacks that return or raise to one event and
\* publishing to it.
ThrowEvent == "risky"
ThrowSigs  == { <<"int">>, <<"const std::string&">> }
ThrowKinds == {"ok", "throw", "throw_other"}
ThrowArgs  == { <<IntV(1)>>, <<LitV("a")>> }

ThrowSubscribe ==
  \E sig \in ThrowSigs, kind \in ThrowKinds :
    next_id_ < MaxThrowSubs /\ SubscribeId(1, ThrowEvent, sig, kind)
ThrowSubscribeInsert == SubscribeInsert(1)
ThrowUnsubscribe == \E id \in 1..MaxThrowSubs : Unsubscribe(1, ThrowEvent, id)
ThrowPublish == \E args \in ThrowArgs : PublishBegin(1, ThrowEvent, args)
ThrowPublishInvoke == PublishInvoke(1)
ThrowPublishIfMin ==
  \E min \in 1..MaxThrowSubs, args \in ThrowArgs :
    PublishIfMinCheck(1, ThrowEvent, min, args)
ThrowPublishIfMinPublish == PublishIfMinPublish(1)
ThrowIsEventRegistered == IsEventRegisteredCall(1, ThrowEvent)
ThrowGetCallbackCount == GetCallbackCountCall(1, ThrowEvent)
ThrowGetAllEventNames == GetAllEventNamesCall(1)
ThrowGetStats == GetStatsCall(1)

NextThrow ==
  \/ ThrowSubscribe
  \/ ThrowSubscribeInsert
  \/ ThrowUnsubscribe
  \/ ThrowPublish
  \/ ThrowPublishInvoke
  \/ ThrowPublishIfMin
  \/ ThrowPublishIfMinPublish
  \/ ThrowIsEventRegistered
  \/ ThrowGetCallbackCount
  \/ ThrowGetAllEventNames
  \/ ThrowGetStats

SpecThrow == Init /\ [][NextThrow]_vars

\* thread_safety_test: the bus holds the counter subscriber, and every
\* thread publishes 1 to "counter" EventsPerThread times while it
\* subscribes to and unsubscribes from "temp_event".
CounterId == 1

InitMT ==
  /\ callbacks_map_ =
       << [first |-> "counter",
           second |-> <<[id |-> CounterId, sig |-> IntSig,
                         kind |-> "count"]>>] >>
  /\ next_id_ = CounterId
  /\ mutex_shared = [t \in Threads |-> 0]
  /\ pc = [t \in Threads |-> "idle"]
  /\ call = [t \in Threads |-> NoCall]
  /\ it = [t \in Threads |-> 0]
  /\ invoked = [t \in Threads |-> <<>>]
  /\ successful_calls = [t \in Threads |-> 0]
  /\ counter = 0
  /\ published = [t \in Threads |-> 0]
  /\ ret = NoRet
  /\ issued = <<CounterId>>
  /\ unsub_true = EmptyBag
  /\ cleared = FALSE
  /\ mutator = [t \in Threads |-> NoCall]
  /\ bus = NewBuses

\* bus.publish("counter", 1) of loop turn published[t] of thread t.
ThreadPublish(t) ==
  /\ published[t] < EventsPerThread
  /\ pc[t] = "idle"
  /\ PublishEnter(t, MkCall("publish", "counter", 0, <<>>, "", <<IntV(1)>>, 0))
  /\ published' = [published EXCEPT ![t] = @ + 1]
  /\ UNCHANGED <<callbacks_map_, next_id_, invoked, successful_calls,
                 counter, issued, unsub_true, cleared, mutator, bus>>

ThreadPublishInvoke(t) == PublishInvoke(t)

\* auto id = bus.subscribe("temp_event", [](int x) {});
ThreadSubscribe(t) ==
  /\ next_id_ < CounterId + MaxTempSubs
  /\ SubscribeId(t, "temp_event", IntSig, "ok")

ThreadSubscribeInsert(t) == SubscribeInsert(t)

\* bus.unsubscribe("temp_event", id), with any id.
ThreadUnsubscribe(t) ==
  \E id \in 1..(CounterId + MaxTempSubs) : Unsubscribe(t, "temp_event", id)

ThreadUnsubscribeAll(t) == UnsubscribeAll(t, "temp_event")

NextMT ==
  \E t \in Threads :
    \/ ThreadPublish(t)
    \/ ThreadPublishInvoke(t)
    \/ ThreadSubscribe(t)
    \/ ThreadSubscribeInsert(t)
    \/ ThreadUnsubscribe(t)
    \/ ThreadUnsubscribeAll(t)

SpecMT == InitMT /\ [][NextMT]_vars


\* Several threads using the mutating operations, publish and
\* publish_if_min_subscribers on one event at the same time.
MaxConcSubs == 2
ConcEvent == "x"

ConcSubscribe(t) ==
  next_id_ < MaxConcSubs /\ SubscribeId(t, ConcEvent, IntSig, "ok")
ConcUnsubscribe(t) ==
  \E id \in 1..MaxConcSubs : Unsubscribe(t, ConcEvent, id)
ConcUnsubscribeAll(t) == UnsubscribeAll(t, ConcEvent)
ConcPublish(t) == PublishBegin(t, ConcEvent, RegArgs)
ConcPublishIfMin(t) ==
  \E min \in 1..MaxConcSubs : PublishIfMinCheck(t, ConcEvent, min, RegArgs)

NextConc ==
  \E t \in Threads :
    \/ ConcSubscribe(t)
    \/ SubscribeInsert(t)
    \/ ConcUnsubscribe(t)
    \/ ConcUnsubscribeAll(t)
    \/ Clear(t)
    \/ ConcPublish(t)
    \/ PublishInvoke(t)
    \/ ConcPublishIfMin(t)
    \/ PublishIfMinPublish(t)

SpecConc == Init /\ [][NextConc]_vars

\* ------------------------------------------- calls made from a callback

\* The bus operations that take std::unique_lock<std::shared_mutex>.
MutatorKinds == {"subscribe", "unsubscribe", "unsubscribe_all", "clear"}

\* A mutating call, made by a caller or by the body of a callback, up to
\* its std::unique_lock lock(mutex_): subscribe has taken its id by then,
\* the other three start with the lock.
MutatorBegin(t, op, e, id, sig, kind) ==
  /\ pc[t] \in {"idle", "callback"}
  /\ mutator[t] = NoCall
  /\ next_id_' = IF op = "subscribe" THEN next_id_ + 1 ELSE next_id_
  /\ mutator' =
       [mutator EXCEPT
          ![t] = MkCall(op, e, IF op = "subscribe" THEN next_id_ + 1 ELSE id,
                        sig, kind, <<>>, 0)]
  /\ UNCHANGED <<callbacks_map_, mutex_shared, pc, call, it, invoked,
                 successful_calls, counter, published, ret, issued,
                 unsub_true, cleared, bus>>

\* What the mutating call c does under the unique lock: [map, result].
MutatorResult(m, c, p) ==
  CASE c.op = "subscribe" ->
         [map |-> PushBack(m, c.eventName,
                           [id |-> c.id, sig |-> c.sig, kind |-> c.kind], p),
          result |-> c.id]
    [] c.op = "unsubscribe" -> UnsubscribeResult(m, c.eventName, c.id)
    [] c.op = "unsubscribe_all" -> UnsubscribeAllResult(m, c.eventName)
    [] OTHER -> [map |-> <<>>, result |-> "void"]

\* The unique lock is granted, which takes that no thread holds the mutex
\* shared, the calling thread included: the call runs and returns, to the
\* caller or into the body of the callback that made it.  The standard
\* leaves lock() by a thread that owns the mutex undefined; SRWLOCK,
\* pthread rwlocks and libc++ all make the thread wait for the readers.
LockUnique(t) ==
  /\ mutator[t] # NoCall
  /\ CanLockUnique
  /\ \E p \in InsertPositions(callbacks_map_, mutator[t].eventName) :
       LET r == MutatorResult(callbacks_map_, mutator[t], p) IN
         /\ callbacks_map_' = r.map
         /\ ret' = MkRet(mutator[t], r.result, <<>>)
         /\ unsub_true' =
              IF mutator[t].op = "unsubscribe" /\ r.result
                THEN unsub_true
                       (+) SetToBag({<<mutator[t].eventName, mutator[t].id>>})
                ELSE unsub_true
  /\ issued' = IF mutator[t].op = "subscribe"
                 THEN Append(issued, mutator[t].id) ELSE issued
  /\ cleared' = CASE mutator[t].op = "clear" -> TRUE
                  [] mutator[t].op = "subscribe" -> FALSE
                  [] OTHER -> cleared
  /\ mutator' = [mutator EXCEPT ![t] = NoCall]
  /\ pc' = [pc EXCEPT ![t] = IF @ = "callback" THEN "callback_done" ELSE @]
  /\ UNCHANGED <<next_id_, mutex_shared, call, it, invoked, successful_calls,
                 counter, published, bus>>

\* What the body of a callback may call on its bus: a mutating operation,
\* or publish as UserManager::onUserLogin does.
BusCallKinds == MutatorKinds \cup {"publish"}

\* The wrapper the range-for of the publish of thread t stands at.
Current(t) == Second(callbacks_map_, call[t].eventName)[it[t]]

\* try_invoke finds the bundle to match and enters callback_, with the
\* shared lock of publish held.
CallbackEnter(t) ==
  /\ pc[t] = "publish_loop"
  /\ TryInvoke(Current(t), call[t].args).invoked
  /\ invoked' =
       [invoked EXCEPT
          ![t] = Append(@, [id |-> Current(t).id,
                            vals |-> TryInvoke(Current(t), call[t].args).vals])]
  /\ pc' = [pc EXCEPT
       ![t] = IF Current(t).kind \in BusCallKinds
                THEN "callback" ELSE "callback_done"]
  /\ UNCHANGED <<callbacks_map_, next_id_, mutex_shared, call, it,
                 successful_calls, counter, published, ret, issued,
                 unsub_true, cleared, mutator, bus>>

\* The body of the callback calls the bus: it subscribes one more callback
\* to its event, unsubscribes itself, or calls unsubscribe_all or clear.
CallbackCallsBus(t) ==
  /\ pc[t] = "callback"
  /\ Current(t).kind \in MutatorKinds
  /\ MutatorBegin(t, Current(t).kind, call[t].eventName, Current(t).id,
                  Current(t).sig, "ok")

\* The callback returns: try_invoke returns true and the range-for goes on,
\* or publish releases the shared lock and returns after the last wrapper.
CallbackReturn(t) ==
  /\ pc[t] = "callback_done"
  /\ IF it[t] < Len(Second(callbacks_map_, call[t].eventName))
       THEN /\ it' = [it EXCEPT ![t] = @ + 1]
            /\ successful_calls' = [successful_calls EXCEPT ![t] = @ + 1]
            /\ pc' = [pc EXCEPT ![t] = "publish_loop"]
            /\ UNCHANGED <<mutex_shared, call, invoked, ret>>
       ELSE /\ mutex_shared' = [mutex_shared EXCEPT ![t] = @ - 1]
            /\ ret' = MkRet(call[t], PublishValue(call[t]), invoked[t])
            /\ it' = [it EXCEPT ![t] = 0]
            /\ invoked' = [invoked EXCEPT ![t] = <<>>]
            /\ successful_calls' = [successful_calls EXCEPT ![t] = 0]
            /\ call' = [call EXCEPT ![t] = NoCall]
            /\ pc' = [pc EXCEPT ![t] = "idle"]
  /\ UNCHANGED <<callbacks_map_, next_id_, counter, published, issued,
                 unsub_true, cleared, mutator, bus>>

\* One caller subscribing callbacks that return at once or call a mutating
\* operation of the bus they are subscribed to, and publishing to them.
\* The caller runs whenever it can take a step.
MaxReSubs == 2
ReEvent == "evt"
ReSigs  == { IntSig, <<"const std::string&">> }
ReKinds == {"ok"} \cup MutatorKinds

ReSubscribe ==
  \E sig \in ReSigs, kind \in ReKinds :
    /\ pc[1] = "idle"
    /\ next_id_ < MaxReSubs
    /\ MutatorBegin(1, "subscribe", ReEvent, 0, sig, kind)
ReUnsubscribe ==
  \E id \in 1..MaxReSubs :
    pc[1] = "idle" /\ MutatorBegin(1, "unsubscribe", ReEvent, id, <<>>, "")
ReUnsubscribeAll ==
  pc[1] = "idle" /\ MutatorBegin(1, "unsubscribe_all", ReEvent, 0, <<>>, "")
ReClear == pc[1] = "idle" /\ MutatorBegin(1, "clear", "", 0, <<>>, "")
ReLockUnique == LockUnique(1)
RePublish == mutator[1] = NoCall /\ PublishBegin(1, ReEvent, RegArgs)
RePublishSkip ==
  /\ pc[1] = "publish_loop"
  /\ ~ TryInvoke(Current(1), call[1].args).invoked
  /\ PublishInvoke(1)
ReCallbackEnter == CallbackEnter(1)
ReCallbackCallsBus == CallbackCallsBus(1)
ReCallbackReturn == CallbackReturn(1)

NextRe ==
  \/ ReSubscribe
  \/ ReUnsubscribe
  \/ ReUnsubscribeAll
  \/ ReClear
  \/ ReLockUnique
  \/ RePublish
  \/ RePublishSkip
  \/ ReCallbackEnter
  \/ ReCallbackCallsBus
  \/ ReCallbackReturn

SpecReentrant == Init /\ [][NextRe]_vars /\ WF_vars(NextRe)


\* ------------------------------------------ publish made from a callback

\* The range-for of publish over the first n wrappers of v: the callbacks
\* entered, with the values they received.
RECURSIVE PublishLoop(_, _, _)
PublishLoop(v, args, n) ==
  IF n = 0 THEN <<>>
  ELSE LET log == PublishLoop(v, args, n - 1)
           r == TryInvoke(v[n], args)
       IN log \o [k \in 1..r.calls |-> [id |-> v[n].id, vals |-> r.vals]]

NestEvent == "user_login"
StatusEvent == "user_status_changed"

\* bus_.publish("user_status_changed", username, "online") in the body of
\* onUserLogin, username being the parameter the callback was entered with.
StatusCall(t) ==
  MkCall("publish", StatusEvent, 0, <<>>, "",
         <<StrV(invoked[t][Len(invoked[t])].vals[1].text), LitV("online")>>,
         0)

\* The callback publishes and its lock_shared is granted although the
\* thread holds the mutex shared already: the inner publish walks the list
\* of its event, whose callbacks only print, releases its lock and returns
\* into the body of the callback.  The standard leaves lock_shared by an
\* owner undefined; it is granted when no writer waits, and where readers
\* are preferred (pthread rwlocks by default) also when one does.
NestedPublish(t) ==
  /\ pc[t] = "callback"
  /\ Current(t).kind = "publish"
  /\ LET c == StatusCall(t)
         v == IF Find(callbacks_map_, c.eventName) = 0
                THEN <<>>
                ELSE Second(callbacks_map_, c.eventName)
     IN ret' = MkRet(c, "void", PublishLoop(v, c.args, Len(v)))
  /\ pc' = [pc EXCEPT ![t] = "callback_done"]
  /\ UNCHANGED <<callbacks_map_, next_id_, mutex_shared, call, it, invoked,
                 successful_calls, counter, published, issued, unsub_true,
                 cleared, mutator, bus>>

\* The other outcome of that lock_shared: a thread has begun a mutating
\* call and waits for the unique lock, and lock_shared queues behind it
\* (SRWLOCK, libc++).  The writer waits for the shared lock this thread
\* holds from the enclosing publish, so neither lock is ever granted.
NestedPublishBlocked(t) ==
  /\ pc[t] = "callback"
  /\ Current(t).kind = "publish"
  /\ \E u \in Threads \ {t} : mutator[u] # NoCall
  /\ pc' = [pc EXCEPT ![t] = "nested_wait"]
  /\ UNCHANGED <<callbacks_map_, next_id_, mutex_shared, call, it, invoked,
                 successful_calls, counter, published, ret, issued,
                 unsub_true, cleared, mutator, bus>>

\* The threads of a program built as example_simple.cpp: each subscribes
\* the callbacks of UserManager and NotificationService, removes
\* subscriptions and publishes user_login.  Every thread runs whenever it
\* can take a step.
MaxNestSubs == 2
LoginSig == <<"const std::string&">>
LoginArgs == <<LitV("Alice")>>

NestSubscribe(t) ==
  /\ pc[t] = "idle"
  /\ next_id_ < MaxNestSubs
  /\ \/ MutatorBegin(t, "subscribe", NestEvent, 0, LoginSig, "publish")
     \/ MutatorBegin(t, "subscribe", StatusEvent, 0, StatusSig, "ok")
NestUnsubscribe(t) ==
  \E e \in {NestEvent, StatusEvent}, id \in 1..MaxNestSubs :
    pc[t] = "idle" /\ MutatorBegin(t, "unsubscribe", e, id, <<>>, "")
NestUnsubscribeAll(t) ==
  \E e \in {NestEvent, StatusEvent} :
    pc[t] = "idle" /\ MutatorBegin(t, "unsubscribe_all", e, 0, <<>>, "")
NestClear(t) == pc[t] = "idle" /\ MutatorBegin(t, "clear", "", 0, <<>>, "")
NestPublish(t) == mutator[t] = NoCall /\ PublishBegin(t, NestEvent, LoginArgs)

NestThread(t) ==
  \/ NestSubscribe(t)
  \/ NestUnsubscribe(t)
  \/ NestUnsubscribeAll(t)
  \/ NestClear(t)
  \/ LockUnique(t)
  \/ NestPublish(t)
  \/ CallbackEnter(t)
  \/ NestedPublish(t)
  \/ NestedPublishBlocked(t)
  \/ CallbackReturn(t)

NextNested == \E t \in Threads : NestThread(t)

SpecNested ==
  Init /\ [][NextNested]_vars /\ \A t \in Threads : WF_vars(NestThread(t))


\* ------------------------------------------------------ verbose logging

\* A block written to std::cout; n is the number it prints, if any.
Line(text, n) == [text |-> text, n |-> n]

\* What b writes with a message guarded by if (verbose_logging_).
Verbose(b, lines) == IF b.verbose_logging_ THEN lines ELSE <<>>

\* void setVerboseLogging(bool verbose)
BusSetVerboseLogging(b, verbose) == [b EXCEPT !.verbose_logging_ = verbose]

\* subscribe with the id taken a second time where the diagnostic prints
\* it: << "ID: " << ++next_id_.
BusSubscribe_LogTakesId(b, e, sig, kind, p) ==
  LET id == b.next_id_ + 1 IN
  [b EXCEPT
     !.next_id_ = IF b.verbose_logging_ THEN id + 1 ELSE id,
     !.cout = Verbose(b, <<Line("Subscribe event", id)>>),
     !.callbacks_map_ =
        PushBack(@, e, [id |-> id, sig |-> sig, kind |-> kind], p),
     !.ret = MkRet(MkCall("subscribe", e, id, sig, kind, <<>>, 0), id, <<>>)]

\* subscribe on bus b, the new key going to place p.
BusSubscribe(b, e, sig, kind, p) ==
  LET id == b.next_id_ + 1 IN
  [b EXCEPT
     !.next_id_ = id,
     !.cout = Verbose(b, <<Line("Subscribe event", id)>>),
     !.callbacks_map_ =
        PushBack(@, e, [id |-> id, sig |-> sig, kind |-> kind], p),
     !.ret = MkRet(MkCall("subscribe", e, id, sig, kind, <<>>, 0), id, <<>>)]

\* unsubscribe, unsubscribe_all and clear on bus b: no diagnostics.
BusMutate(b, c) ==
  LET r == MutatorResult(b.callbacks_map_, c, 1) IN
  [b EXCEPT !.callbacks_map_ = r.map, !.cout = <<>>,
            !.ret = MkRet(c, r.result, <<>>)]

\* The range-for of publish over the first n wrappers of v: what it writes
\* when verbose_logging_ is set, a block for each try_invoke that returned
\* false.
RECURSIVE PublishLoopLines(_, _, _)
PublishLoopLines(v, args, n) ==
  IF n = 0 THEN <<>>
  ELSE PublishLoopLines(v, args, n - 1)
         \o (IF TryInvoke(v[n], args).result
               THEN <<>>
               ELSE <<Line("Type mismatch, skipping callback", v[n].id)>>)

\* int successful_calls after the first n wrappers of v.
RECURSIVE SuccessfulCalls(_, _, _)
SuccessfulCalls(v, args, n) ==
  IF n = 0 THEN 0
  ELSE SuccessfulCalls(v, args, n - 1)
         + (IF TryInvoke(v[n], args).result THEN 1 ELSE 0)

\* The call c, publish or the publish of publish_if_min_subscribers, on
\* bus b, which returns value.
BusPublish(b, c, value) ==
  LET m == b.callbacks_map_ IN
  IF \/ Find(m, c.eventName) = 0
     \/ Second(m, c.eventName) = <<>>
    THEN [b EXCEPT
            !.cout = Verbose(b, <<Line("Warning: Event has no callbacks", 0)>>),
            !.ret = MkRet(c, value, <<>>)]
    ELSE LET v == Second(m, c.eventName) IN
         [b EXCEPT
            !.cout =
               Verbose(b, <<Line("Publish event", Len(c.args))>>
                            \o PublishLoopLines(v, c.args, Len(v))
                            \o <<Line("Successfully called",
                                      SuccessfulCalls(v, c.args, Len(v)))>>),
            !.ret = MkRet(c, value, PublishLoop(v, c.args, Len(v)))]

\* publish_if_min_subscribers on bus b.
BusPublishIfMin(b, c) ==
  IF MinSubscribersCheck(b.callbacks_map_, c.eventName, c.min_subscribers)
    THEN BusPublish(b, c, TRUE)
    ELSE [b EXCEPT !.cout = <<>>, !.ret = MkRet(c, FALSE, <<>>)]

\* isEventRegistered, getCallbackCount, getAllEventNames and getStats on
\* bus b: no diagnostics.
BusQuery(b, op, e) ==
  LET m == b.callbacks_map_
      value == CASE op = "isEventRegistered" -> IsEventRegistered(m, e)
                 [] op = "getCallbackCount" -> GetCallbackCount(m, e)
                 [] op = "getAllEventNames" -> GetAllEventNames(m)
                 [] OTHER -> GetStats(m)
  IN [b EXCEPT !.cout = <<>>,
               !.ret = MkRet(MkCall(op, e, 0, <<>>, "", <<>>, 0), value, <<>>)]

\* The variables of the bus the threads share.
sharedBus == <<callbacks_map_, next_id_, mutex_shared, pc, call, it, invoked,
               successful_calls, counter, published, ret, issued, unsub_true,
               cleared, mutator>>

\* One caller making every call on both buses, the loud and the quiet one,
\* and switching the logging of either on and off in between.  The
\* subscribers, all of one event, take an int or text and return or raise;
\* a key new to both maps goes to the same place in both.
MaxVbSubs == 2
VbEvents == {ThrowEvent, "nonexistent"}
VbQueries ==
  {"isEventRegistered", "getCallbackCount", "getAllEventNames", "getStats"}

VbSetVerboseLogging ==
  \E b \in BusIds, verbose \in BOOLEAN :
    /\ bus' = [bus EXCEPT ![b] = BusSetVerboseLogging(@, verbose)]
    /\ UNCHANGED sharedBus
VbSubscribe ==
  \E e \in {ThrowEvent}, sig \in ThrowSigs, kind \in {"ok", "throw"} :
    \E p \in InsertPositions(bus["loud"].callbacks_map_, e) :
      /\ \A b \in BusIds : bus[b].next_id_ < MaxVbSubs
      /\ bus' = [b \in BusIds |-> BusSubscribe(bus[b], e, sig, kind, p)]
      /\ UNCHANGED sharedBus
VbUnsubscribe ==
  \E e \in VbEvents, id \in 1..MaxVbSubs :
    /\ bus' = [b \in BusIds |->
                 BusMutate(bus[b],
                           MkCall("unsubscribe", e, id, <<>>, "", <<>>, 0))]
    /\ UNCHANGED sharedBus
VbUnsubscribeAll ==
  \E e \in VbEvents :
    /\ bus' = [b \in BusIds |->
                 BusMutate(bus[b],
                           MkCall("unsubscribe_all", e, 0, <<>>, "", <<>>, 0))]
    /\ UNCHANGED sharedBus
VbClear ==
  /\ bus' = [b \in BusIds |->
               BusMutate(bus[b], MkCall("clear", "", 0, <<>>, "", <<>>, 0))]
  /\ UNCHANGED sharedBus
VbPublish ==
  \E e \in VbEvents, args \in ThrowArgs :
    /\ bus' = [b \in BusIds |->
                 BusPublish(bus[b],
                            MkCall("publish", e, 0, <<>>, "", args, 0),
                            "void")]
    /\ UNCHANGED sharedBus
VbPublishIfMin ==
  \E e \in VbEvents, min \in 0..MaxVbSubs, args \in ThrowArgs :
    /\ bus' = [b \in BusIds |->
                 BusPublishIfMin(bus[b],
                                 MkCall("publish_if_min_subscribers", e, 0,
                                        <<>>, "", args, min))]
    /\ UNCHANGED sharedBus
VbQuery ==
  \E op \in VbQueries, e \in VbEvents :
    /\ bus' = [b \in BusIds |-> BusQuery(bus[b], op, e)]
    /\ UNCHANGED sharedBus

NextVerbose ==
  \/ VbSetVerboseLogging
  \/ VbSubscribe
  \/ VbUnsubscribe
  \/ VbUnsubscribeAll
  \/ VbClear
  \/ VbPublish
  \/ VbPublishIfMin
  \/ VbQuery

SpecVerbose == Init /\ [][NextVerbose]_vars


\* ------------------------------------------------------------ properties

\* The (event, id) pairs the registry m holds.
Subscribed(m) ==
  UNION { { <<m[i].first, m[i].second[j].id>> : j \in 1..Len(m[i].second) } :
          i \in 1..Len(m) }

\* The subscriptions registry m holds under event e, in list order.
ListOf(m, e) ==
  IF \E i \in 1..Len(m) : m[i].first = e
    THEN m[CHOOSE i \in 1..Len(m) : m[i].first = e].second
    ELSE <<>>

\* C1: the ids returned by subscribe are pairwise distinct and each is
\* strictly greater than the id every earlier subscribe call returned,
\* whatever unsubscribe, unsubscribe_all, clear and publish calls lie
\* between them; the id a call in progress holds is greater as well.
C1_IdsStrictlyIncreasing ==
  /\ \A i, j \in 1..Len(issued) : i < j => issued[i] < issued[j]
  /\ \A t \in Threads :
       pc[t] = "subscribe_lock" =>
         \A i \in 1..Len(issued) : issued[i] < call[t].id

\* Three ids were returned, the last one after an unsubscribe that removed
\* an earlier subscription.
C1_Witness ==
  /\ Len(issued) = 3
  /\ ret.call.op = "subscribe"
  /\ ret.value = issued[3]
  /\ BagCardinality(unsub_true) >= 1

\* C2: unsubscribe(e, id) returns true only when (e, id) is subscribed, it
\* then removes exactly that subscription, and it has not returned true for
\* (e, id) before: it returns true at most once per (e, id), whichever
\* threads make the calls.
C2_UnsubscribeTrueOnce ==
  [][ \A p \in BagToSet(unsub_true') :
        CopiesIn(p, unsub_true') # CopiesIn(p, unsub_true) =>
          /\ CopiesIn(p, unsub_true) = 0
          /\ p \in Subscribed(callbacks_map_)
          /\ Subscribed(callbacks_map_') = Subscribed(callbacks_map_) \ {p}
          /\ \A e \in {"counter", "temp_event"} :
               Len(ListOf(callbacks_map_', e)) =
                 Len(ListOf(callbacks_map_, e)) - (IF e = p[1] THEN 1 ELSE 0)
    ]_vars

\* An unsubscribe has just returned false for a pair an earlier unsubscribe
\* returned true for, while another thread is inside a call.
C2_Witness ==
  /\ ret.call.op = "unsubscribe"
  /\ ret.value = FALSE
  /\ CopiesIn(<<ret.call.eventName, ret.call.id>>, unsub_true) = 1
  /\ \E t \in Threads : pc[t] # "idle"


\* The positions in the deliveries of the publish that returned last at
\* which the callback with the given id was entered.
Deliveries(id) == { d \in 1..Len(ret.invoked) : ret.invoked[d].id = id }

\* The wrappers of the event of the call that returned last.
RetList == ListOf(callbacks_map_, ret.call.eventName)

\* The published values have exactly the value types of the parameters.
ExactlyTyped(sig, args) ==
  /\ Len(sig) = Len(args)
  /\ \A k \in 1..Len(sig) : args[k].type = Decay(sig[k])

\* C3: a publish whose argument value types are exactly the parameter types
\* a subscriber of the event declares enters that subscriber's callback
\* exactly once, with exactly the published values.
C3_ExactTypesInvokedOnce ==
  ret.call.op = "publish" =>
    \A i \in 1..Len(RetList) :
      ExactlyTyped(RetList[i].sig, ret.call.args) =>
        /\ Cardinality(Deliveries(RetList[i].id)) = 1
        /\ \A d \in Deliveries(RetList[i].id) :
             ret.invoked[d].vals = ret.call.args

\* publish("add", 5, 3) reached a subscriber declaring (int, int).
C3_Witness ==
  /\ ret.call.op = "publish"
  /\ ret.call.args = <<IntV(5), IntV(3)>>
  /\ \E i \in 1..Len(RetList) :
       /\ RetList[i].sig = <<"int", "int">>
       /\ \E d \in Deliveries(RetList[i].id) :
            ret.invoked[d].vals = <<IntV(5), IntV(3)>>

\* A declared parameter type that is a std::string.
IsText(T) == T \in {"std::string", "const std::string&"}

\* The subscriber declares text, every text position is published as a
\* literal and every other position with exactly its value type.
LiteralsAtText(sig, args) ==
  /\ Len(sig) = Len(args)
  /\ \E k \in 1..Len(sig) : IsText(sig[k])
  /\ \A k \in 1..Len(sig) :
       args[k].type = (IF IsText(sig[k]) THEN "const char*" ELSE Decay(sig[k]))

\* C4: a subscriber declaring text parameters is entered exactly once when
\* every text position is published as a raw literal (the other positions
\* exactly typed), and it receives each literal as a std::string of the
\* same text and every other value unchanged.
C4_LiteralToString ==
  ret.call.op = "publish" =>
    \A i \in 1..Len(RetList) :
      LiteralsAtText(RetList[i].sig, ret.call.args) =>
        /\ Cardinality(Deliveries(RetList[i].id)) = 1
        /\ \A d \in Deliveries(RetList[i].id),
              k \in 1..Len(ret.call.args) :
             ret.invoked[d].vals[k] =
               (IF IsText(RetList[i].sig[k])
                  THEN StrV(ret.call.args[k].text)
                  ELSE ret.call.args[k])

\* publish("task", "Write docs", "Bob", 5) reached handle_task with two
\* strings and the int.
C4_Witness ==
  /\ ret.call.op = "publish"
  /\ ret.call.args = <<LitV("Write docs"), LitV("Bob"), IntV(5)>>
  /\ \E d \in 1..Len(ret.invoked) :
       /\ Len(ret.invoked[d].vals) = 3
       /\ ret.invoked[d].vals[1] = StrV("Write docs")
       /\ ret.invoked[d].vals[2] = StrV("Bob")
       /\ ret.invoked[d].vals[3] = IntV(5)

\* C5: a publish whose number of arguments differs from the number of
\* parameters a subscriber of the event declares enters no callback of
\* that subscriber and returns without an exception.
C5_ArityMismatchInvokesNothing ==
  ret.call.op = "publish" =>
    /\ ret.value = "void"
    /\ \A i \in 1..Len(RetList) :
         Len(RetList[i].sig) # Len(ret.call.args) =>
           Deliveries(RetList[i].id) = {}

\* The bundle has one of the three tuple types try_invoke accepts for sig.
SignatureMatches(sig, args) ==
  /\ Len(sig) = Len(args)
  /\ \/ \A k \in 1..Len(sig) : args[k].type = sig[k]
     \/ \A k \in 1..Len(sig) : args[k].type = Decay(sig[k])
     \/ \A k \in 1..Len(sig) :
          args[k].type = (IF IsText(sig[k]) THEN "const char*"
                          ELSE Decay(sig[k]))

\* C6: publish returns normally whatever the callbacks raise, and every
\* subscriber of the event whose signature matches was entered exactly
\* once in it, also those before and after a subscriber that raised.
C6_RaisingCallbackIsolated ==
  ret.call.op = "publish" =>
    /\ ret.value = "void"
    /\ \A i \in 1..Len(RetList) :
         SignatureMatches(RetList[i].sig, ret.call.args) =>
           Cardinality(Deliveries(RetList[i].id)) = 1

\* A publish returned after a first subscriber that raised something that
\* is no std::exception and a second one that returned, both entered.
C6_Witness ==
  /\ ret.call.op = "publish"
  /\ ret.value = "void"
  /\ Len(RetList) = 2
  /\ RetList[1].kind = "throw_other"
  /\ RetList[2].kind = "ok"
  /\ Len(ret.invoked) = 2
  /\ ret.invoked[1].id = RetList[1].id
  /\ ret.invoked[2].id = RetList[2].id


\* The sum of f over the threads 1..n.
RECURSIVE SumUpTo(_, _)
SumUpTo(f, n) == IF n = 0 THEN 0 ELSE f[n] + SumUpTo(f, n - 1)

\* The publishes to "counter" that have entered the callback.
Delivered ==
  SumUpTo([t \in Threads |->
             published[t] - (IF pc[t] = "publish_loop" THEN 1 ELSE 0)],
          NumThreads)

\* C7: with NumThreads threads publishing 1 to "counter" EventsPerThread
\* times each while they subscribe to and unsubscribe from "temp_event",
\* every publish enters the counter callback exactly once, and the counter
\* is NumThreads * EventsPerThread when all threads have finished.
C7_CounterIsNTimesM ==
  /\ counter = Delivered
  /\ ret.call.op = "publish" =>
       /\ Len(ret.invoked) = 1
       /\ ret.invoked[1] = [id |-> CounterId, vals |-> <<IntV(1)>>]
  /\ (\A t \in Threads : pc[t] = "idle" /\ published[t] = EventsPerThread)
       => counter = NumThreads * EventsPerThread

\* All threads have finished their publishes, after subscriptions to
\* temp_event were made and removed.
C7_Witness ==
  /\ \A t \in Threads : pc[t] = "idle" /\ published[t] = EventsPerThread
  /\ counter = NumThreads * EventsPerThread
  /\ next_id_ = CounterId + MaxTempSubs
  /\ BagCardinality(unsub_true) = MaxTempSubs

\* What a callback declaring sig receives for the published args.
Received(sig, args) ==
  [k \in 1..Len(args) |->
     IF IsText(sig[k]) /\ args[k].type = "const char*"
       THEN StrV(args[k].text)
       ELSE args[k]]

\* The deliveries publish makes for the list v: the subscribers whose
\* signature matches, in list order.
WouldInvoke(v, args) ==
  LET Matching(w) == SignatureMatches(w.sig, args)
      sel == SelectSeq(v, Matching)
  IN [i \in 1..Len(sel) |->
        [id |-> sel[i].id, vals |-> Received(sel[i].sig, args)]]

\* C8: without concurrent mutation and with min_subscribers >= 1,
\* publish_if_min_subscribers returns false and enters no callback when
\* the event has fewer subscriptions, and returns true after entering
\* exactly the callbacks a publish enters when it has at least that many.
C8_PublishIfMinSubscribers ==
  (ret.call.op = "publish_if_min_subscribers"
     /\ ret.call.min_subscribers >= 1) =>
    IF Len(RetList) < ret.call.min_subscribers
      THEN ret.value = FALSE /\ ret.invoked = <<>>
      ELSE ret.value = TRUE
           /\ ret.invoked = WouldInvoke(RetList, ret.call.args)

\* publish_if_min_subscribers(e, 2, 5) returned true on an event with two
\* subscribers, both entered.
C8_Witness ==
  /\ ret.call.op = "publish_if_min_subscribers"
  /\ ret.call.min_subscribers = 2
  /\ ret.value = TRUE
  /\ Len(RetList) = 2
  /\ Len(ret.invoked) = 2

\* The largest number of subscriptions an event of m has, 0 without events.
MaxCount(m) ==
  LET counts == { Len(m[i].second) : i \in 1..Len(m) }
  IN IF counts = {} THEN 0
     ELSE CHOOSE n \in counts : \A k \in counts : k <= n

\* C9: get_stats returns the number of event names with a subscription,
\* the number of all subscriptions, the largest number of subscriptions of
\* one event, and a name that has that many subscriptions.
C9_StatsSnapshot ==
  LET m == callbacks_map_
      s == GetStats(m)
  IN /\ s.total_events =
          Cardinality({ m[i].first : i \in { k \in 1..Len(m) :
                                               Len(m[k].second) >= 1 } })
     /\ s.total_callbacks =
          Cardinality(UNION { { <<i, j>> : j \in 1..Len(m[i].second) } :
                              i \in 1..Len(m) })
     /\ s.max_callbacks_per_event = MaxCount(m)
     /\ Len(ListOf(m, s.most_subscribed_event)) = s.max_callbacks_per_event
     /\ ret.call.op = "getStats" => ret.value = s

\* get_stats returned 2, 3, 2, x for two subscriptions to x and one to y.
C9_Witness ==
  /\ ret.call.op = "getStats"
  /\ Len(ListOf(callbacks_map_, "x")) = 2
  /\ Len(ListOf(callbacks_map_, "y")) = 1
  /\ ret.value = [total_events |-> 2, total_callbacks |-> 3,
                  max_callbacks_per_event |-> 2,
                  most_subscribed_event |-> "x"]

\* Registry m holds a subscription under event e.
HasSubscription(m, e) ==
  \E i \in 1..Len(m) : m[i].first = e /\ Len(m[i].second) >= 1

\* C10: for every event name, is_registered is true iff callback_count is
\* at least 1 iff all_event_names lists the name, all three exactly when
\* the registry holds a subscription under it (so false, 0 and not listed
\* for a name never subscribed or emptied by unsubscribe), and
\* all_event_names has no duplicates.
C10_QueriesAgree ==
  LET m == callbacks_map_
      names == GetAllEventNames(m)
  IN /\ \A e \in QueryNames \cup {""} :
          /\ IsEventRegistered(m, e) = HasSubscription(m, e)
          /\ (GetCallbackCount(m, e) >= 1) = HasSubscription(m, e)
          /\ (\E k \in 1..Len(names) : names[k] = e) = HasSubscription(m, e)
          /\ ~ HasSubscription(m, e) => GetCallbackCount(m, e) = 0
     /\ \A k, l \in 1..Len(names) : names[k] = names[l] => k = l
     /\ ret.call.op = "isEventRegistered" =>
          ret.value = HasSubscription(m, ret.call.eventName)
     /\ ret.call.op = "getCallbackCount" =>
          ret.value = Len(ListOf(m, ret.call.eventName))
     /\ ret.call.op = "getAllEventNames" => ret.value = names

\* all_event_names returned only y while the map still holds the entry of
\* x, emptied by unsubscribe.
C10_Witness ==
  /\ ret.call.op = "getAllEventNames"
  /\ ret.value = <<"y">>
  /\ \E i \in 1..Len(callbacks_map_) :
       callbacks_map_[i].first = "x" /\ callbacks_map_[i].second = <<>>
  /\ \E id \in 1..MaxId : CopiesIn(<<"x", id>>, unsub_true) = 1

\* The place of id in the order in which subscribe returned the ids.
IssuedAt(id) == CHOOSE k \in 1..Len(issued) : issued[k] = id

\* C11: the list of every event holds its subscriptions in the order in
\* which they were subscribed, after any sequence of subscribe and
\* unsubscribe calls, and a publish enters the matching subscribers of the
\* event in the order of that list.
C11_InvokedInSubscriptionOrder ==
  /\ \A n \in 1..Len(callbacks_map_) :
       \A i, j \in 1..Len(callbacks_map_[n].second) :
         i < j => IssuedAt(callbacks_map_[n].second[i].id)
                    < IssuedAt(callbacks_map_[n].second[j].id)
  /\ ret.call.op \in {"publish", "publish_if_min_subscribers"} =>
       \A d, f \in 1..Len(ret.invoked) :
         d < f => IssuedAt(ret.invoked[d].id) < IssuedAt(ret.invoked[f].id)
  /\ ret.call.op = "publish" =>
       ret.invoked = WouldInvoke(RetList, ret.call.args)

\* A publish entered the first and the third subscriber of x, in that
\* order, after unsubscribe removed the second one.
C11_Witness ==
  /\ ret.call.op = "publish"
  /\ ret.call.eventName = "x"
  /\ Len(ret.invoked) = 2
  /\ ret.invoked[1].id = 1
  /\ ret.invoked[2].id = 3
  /\ CopiesIn(<<"x", 2>>, unsub_true) = 1

\* C12: a subscribe call that returns has appended exactly one subscription
\* with the returned id at the end of the list of its event (creating the
\* entry when the event was absent): callback_count of the event has grown
\* by 1, is_registered is true for it, and the list of every other event is
\* unchanged.  A subscribe in progress can always complete.
C12_SubscribeAppendsOne ==
  [][ /\ issued' # issued =>
           LET e == ret'.call.eventName
               w == [id |-> ret'.value, sig |-> ret'.call.sig,
                     kind |-> ret'.call.kind]
           IN /\ ret'.call.op = "subscribe"
              /\ issued' = Append(issued, ret'.value)
              /\ ListOf(callbacks_map_', e)
                   = Append(ListOf(callbacks_map_, e), w)
              /\ GetCallbackCount(callbacks_map_', e)
                   = GetCallbackCount(callbacks_map_, e) + 1
              /\ IsEventRegistered(callbacks_map_', e)
              /\ \A o \in QueryNames \ {e} :
                   ListOf(callbacks_map_', o) = ListOf(callbacks_map_, o)
              /\ Len(callbacks_map_') =
                   Len(callbacks_map_)
                     + (IF \E n \in 1..Len(callbacks_map_) :
                             callbacks_map_[n].first = e
                          THEN 0 ELSE 1)
      /\ pc[1] = "subscribe_lock" => issued' # issued
    ]_vars

\* subscribe has just returned the id of the second subscription of its
\* event, the last of the list, while the other event holds one.
C12_Witness ==
  /\ ret.call.op = "subscribe"
  /\ Len(RetList) = 2
  /\ RetList[2].id = ret.value
  /\ \E o \in Events \ {ret.call.eventName} :
       Len(ListOf(callbacks_map_, o)) = 1

\* C13: an unsubscribe_all(e) call returns the number of subscriptions e
\* had immediately before it (0 for an unknown event); after it
\* callback_count(e) is 0 and is_registered(e) is false, and the
\* subscriptions of every other event are unchanged.
C13_UnsubscribeAllFrame ==
  [][ ( /\ ret'.call.op = "unsubscribe_all"
        /\ pc' = pc
        /\ ret' # ret \/ callbacks_map_' # callbacks_map_ ) =>
        LET e == ret'.call.eventName
        IN /\ ret'.value = Len(ListOf(callbacks_map_, e))
           /\ ~ HasSubscription(callbacks_map_, e) => ret'.value = 0
           /\ GetCallbackCount(callbacks_map_', e) = 0
           /\ ~ IsEventRegistered(callbacks_map_', e)
           /\ ListOf(callbacks_map_', e) = <<>>
           /\ \A o \in QueryNames \ {e} :
                ListOf(callbacks_map_', o) = ListOf(callbacks_map_, o)
           /\ next_id_' = next_id_
    ]_vars

\* unsubscribe_all has just returned 2 for an event that now has no
\* subscription, while the other event still holds one.
C13_Witness ==
  /\ ret.call.op = "unsubscribe_all"
  /\ ret.value = 2
  /\ RetList = <<>>
  /\ \E o \in Events \ {ret.call.eventName} :
       Len(ListOf(callbacks_map_, o)) = 1

\* C14: after clear() has returned and until the next subscribe returns,
\* all_event_names() is empty, get_stats reports total_events = 0 and
\* total_callbacks = 0, callback_count is 0 and is_registered is false for
\* every name, and a publish to any name enters no callback.
C14_ClearEmptiesBus ==
  cleared =>
    /\ callbacks_map_ = <<>>
    /\ GetAllEventNames(callbacks_map_) = <<>>
    /\ GetStats(callbacks_map_).total_events = 0
    /\ GetStats(callbacks_map_).total_callbacks = 0
    /\ \A e \in QueryNames \cup {""} :
         /\ GetCallbackCount(callbacks_map_, e) = 0
         /\ ~ IsEventRegistered(callbacks_map_, e)
    /\ ret.call.op \in {"publish", "publish_if_min_subscribers"} =>
         ret.invoked = <<>>
    /\ ret.call.op = "publish" => ret.value = "void"
    /\ ret.call.op = "getAllEventNames" => ret.value = <<>>
    /\ ret.call.op = "getCallbackCount" => ret.value = 0
    /\ ret.call.op = "isEventRegistered" => ret.value = FALSE
    /\ ret.call.op = "getStats" =>
         ret.value.total_events = 0 /\ ret.value.total_callbacks = 0
    /\ \A t \in Threads : pc[t] \in {"idle", "subscribe_lock"}

\* A publish to x has returned after a clear that followed three
\* subscriptions, none of them removed by unsubscribe.
C14_Witness ==
  /\ cleared
  /\ ret.call.op = "publish"
  /\ ret.call.eventName = "x"
  /\ Len(issued) = 3
  /\ unsub_true = EmptyBag

\* C15: an unsubscribe(e, id) call for a pair that is not subscribed (e is
\* unknown, id was never issued, id was already removed, or id is
\* subscribed under another event) returns false and leaves the whole
\* registry unchanged.
C15_InvalidUnsubscribe ==
  [][ ( /\ ret'.call.op = "unsubscribe"
        /\ pc' = pc
        /\ ret' # ret \/ callbacks_map_' # callbacks_map_ ) =>
        ( <<ret'.call.eventName, ret'.call.id>>
            \notin Subscribed(callbacks_map_) =>
            /\ ret'.value = FALSE
            /\ callbacks_map_' = callbacks_map_
            /\ next_id_' = next_id_ )
    ]_vars

\* unsubscribe(e, id) has just returned false for an id that is subscribed
\* under the other event, both events holding subscriptions.
C15_Witness ==
  /\ ret.call.op = "unsubscribe"
  /\ ret.value = FALSE
  /\ ret.call.eventName \in Events
  /\ Len(RetList) >= 1
  /\ \E o \in Events \ {ret.call.eventName} :
       <<o, ret.call.id>> \in Subscribed(callbacks_map_)

\* C16: a publish of one value of a class type T (a map, a tuple, a
\* user-defined struct) enters a subscriber of the event that declares its
\* single parameter as const T& exactly once, with a value equal to the
\* published one.
C16_ConstReferenceToClassType ==
  ret.call.op = "publish" =>
    \A i \in 1..Len(RetList) :
      ( /\ ret.call.args \in ComplexArgs
        /\ RetList[i].sig = <<"const " \o ret.call.args[1].type \o "&">> ) =>
        /\ Cardinality(Deliveries(RetList[i].id)) = 1
        /\ \A d \in Deliveries(RetList[i].id) :
             ret.invoked[d].vals = ret.call.args

\* publish("telemetry.packet", packet) reached the subscriber declaring
\* const std::tuple<int, double, std::string>&, with the packet.
C16_Witness ==
  /\ ret.call.op = "publish"
  /\ ret.call.args =
       <<ObjV("std::tuple<int, double, std::string>", "payload")>>
  /\ \E i \in 1..Len(RetList) :
       /\ RetList[i].sig = <<"const std::tuple<int, double, std::string>&">>
       /\ \E d \in Deliveries(RetList[i].id) :
            ret.invoked[d].vals = ret.call.args

\* The source type S is admissible for the declared parameter type P: the
\* value type of P itself, a raw literal for a text parameter, or a number
\* for a parameter of another number type.
Admissible(P, S) ==
  \/ S = Decay(P)
  \/ IsText(P) /\ S = "const char*"
  \/ S \in {"int", "double"} /\ Decay(P) \in {"int", "double"}

\* The signature matches the published arguments: the counts are equal and
\* the type at every position is admissible for its parameter.
PerPositionMatch(sig, args) ==
  /\ Len(sig) = Len(args)
  /\ \A k \in 1..Len(sig) : Admissible(sig[k], args[k].type)

\* C17: for an event holding subscribers with different signatures, a
\* publish enters exactly the subscribers whose signature matches the
\* published arguments, each once, and skips the others, whatever their
\* positions in the list.
C17_ExactlyMatchingInvoked ==
  ( /\ ret.call.op = "publish"
    /\ \E i, j \in 1..Len(RetList) : RetList[i].sig # RetList[j].sig ) =>
    \A i \in 1..Len(RetList) :
      Cardinality(Deliveries(RetList[i].id)) =
        (IF PerPositionMatch(RetList[i].sig, ret.call.args) THEN 1 ELSE 0)

\* C18: a callback that calls subscribe, unsubscribe, unsubscribe_all or
\* clear on its bus from inside a publish does not deadlock: whenever a
\* thread is in such a callback, its call is over later on and the
\* enclosing publish has returned.
C18_ReentrantMutationCompletes ==
  \A t \in Threads :
    (pc[t] = "callback") ~> (pc[t] = "idle" /\ mutator[t] = NoCall)

\* C19: matching is decided per position: a subscriber declaring only text
\* parameters is entered exactly once by a publish whose arguments are each
\* an owned text value or a raw literal, at least one of each (as
\* publish("user_status_changed", username, "online")), and receives all
\* of them as text.
C19_OwnedAndLiteralText ==
  ret.call.op = "publish" =>
    \A i \in 1..Len(RetList) :
      ( /\ Len(RetList[i].sig) = Len(ret.call.args)
        /\ \A k \in 1..Len(ret.call.args) :
             /\ IsText(RetList[i].sig[k])
             /\ ret.call.args[k].type \in {"std::string", "const char*"}
        /\ \E k \in 1..Len(ret.call.args) :
             ret.call.args[k].type = "std::string"
        /\ \E k \in 1..Len(ret.call.args) :
             ret.call.args[k].type = "const char*" ) =>
        /\ Cardinality(Deliveries(RetList[i].id)) = 1
        /\ \A d \in Deliveries(RetList[i].id) :
             ret.invoked[d].vals =
               [k \in 1..Len(ret.call.args) |-> StrV(ret.call.args[k].text)]

\* C20: a publish(e, args) enters only callbacks subscribed under e and
\* returns without raising; when e was never subscribed or has lost all its
\* subscriptions it enters no callback of any event and returns at once.
C20_PublishOnlyToItsEvent ==
  /\ ret.call.op = "publish" =>
       /\ ret.value = "void"
       /\ \A d \in 1..Len(ret.invoked) :
            \E i \in 1..Len(RetList) : RetList[i].id = ret.invoked[d].id
       /\ ~ HasSubscription(callbacks_map_, ret.call.eventName) =>
            ret.invoked = <<>>
  /\ \A t \in Threads :
       pc[t] = "publish_loop" =>
         /\ HasSubscription(callbacks_map_, call[t].eventName)
         /\ \A d \in 1..Len(invoked[t]) :
              \E i \in 1..Len(ListOf(callbacks_map_, call[t].eventName)) :
                ListOf(callbacks_map_, call[t].eventName)[i].id
                  = invoked[t][d].id

\* A publish to an event whose only subscription was removed by
\* unsubscribe has returned without a delivery, while the other event holds
\* two subscriptions.
C20_Witness ==
  /\ ret.call.op = "publish"
  /\ ret.call.eventName \in Events
  /\ ret.invoked = <<>>
  /\ \E id \in 1..MaxId :
       CopiesIn(<<ret.call.eventName, id>>, unsub_true) = 1
  /\ \E o \in Events \ {ret.call.eventName} :
       Len(ListOf(callbacks_map_, o)) = 2

\* C21: the ids subscribe returns are pairwise distinct, also when several
\* threads are in subscribe at the same time and after unsubscribe,
\* unsubscribe_all or clear: an id taken by a call in progress differs from
\* every id returned before and from the id of every other call in
\* progress, and the registry holds no id twice.
C21_IdsNeverReused ==
  /\ \A i, j \in 1..Len(issued) : i # j => issued[i] # issued[j]
  /\ \A t \in Threads :
       pc[t] = "subscribe_lock" =>
         /\ \A i \in 1..Len(issued) : issued[i] # call[t].id
         /\ \A u \in Threads \ {t} :
              pc[u] = "subscribe_lock" => call[u].id # call[t].id
  /\ \A p, q \in Subscribed(callbacks_map_) : p[2] = q[2] => p = q
  /\ \A p \in Subscribed(callbacks_map_) :
       \E i \in 1..Len(issued) : issued[i] = p[2]

\* Thread 1 took id 1 and has not inserted yet, while the subscribe that
\* took id 2 after it has returned and its subscription has been removed.
C21_Witness ==
  /\ pc[1] = "subscribe_lock"
  /\ call[1].id = 1
  /\ issued = <<2>>
  /\ callbacks_map_ = <<>>

\* C22: a subscriber is entered only by a publish carrying as many
\* arguments as it declares parameters: every delivery of a publish went
\* to a subscriber of that arity, and a subscriber declaring no parameters
\* is entered by a publish without arguments and by no other.
C22_ZeroParametersNeedZeroArguments ==
  ret.call.op = "publish" =>
    /\ \A d \in 1..Len(ret.invoked) :
         \A i \in 1..Len(RetList) :
           RetList[i].id = ret.invoked[d].id =>
             Len(RetList[i].sig) = Len(ret.call.args)
    /\ \A i \in 1..Len(RetList) :
         RetList[i].sig = <<>> =>
           (Deliveries(RetList[i].id) # {} <=> ret.call.args = <<>>)

\* C23: try_invoke returns true if and only if it entered the callback,
\* also when the callback raises: while publish walks the list, the number
\* of wrappers whose try_invoke returned true (successful_calls) equals
\* the number of callbacks entered so far.
C23_TrueIffInvoked ==
  \A t \in Threads :
    pc[t] = "publish_loop" => successful_calls[t] = Len(invoked[t])

\* The registries holding the entries of m in some iteration order: each
\* has the same mapping from event names to subscription lists as m.
Reorderings(m) ==
  { [i \in 1..Len(m) |-> m[f[i]]] :
      f \in { g \in [1..Len(m) -> 1..Len(m)] :
                \A i, j \in 1..Len(m) : g[i] = g[j] => i = j } }

\* C24: the most_subscribed_event get_stats reports is determined by the
\* mapping from event names to subscription counts alone: every registry
\* holding the same entries, whatever the history that built it, reports
\* the name the call that just returned has reported.
C24_TieBreakByContents ==
  ret.call.op = "getStats" =>
    \A m \in Reorderings(callbacks_map_) :
      GetStats(m).most_subscribed_event = ret.value.most_subscribed_event

\* C25: an unsubscribe that removes the last subscription of an event
\* prunes the entry of the event: in every state each entry of the
\* registry holds at least one subscription.
C25_NoEmptyEntry ==
  \A i \in 1..Len(callbacks_map_) : callbacks_map_[i].second # <<>>

\* C26: what publish_if_min_subscribers returns depends only on whether
\* the event has at least min_subscribers subscriptions, for every
\* min_subscribers, 0 included: an event never subscribed and an event
\* emptied by unsubscribe, both with 0 subscriptions, get the same answer.
C26_MinCountOnly ==
  ret.call.op = "publish_if_min_subscribers" =>
    ret.value = (GetCallbackCount(callbacks_map_, ret.call.eventName)
                   >= ret.call.min_subscribers)

\* C27: the check and the publish of publish_if_min_subscribers are not
\* atomic: a thread that has passed the check and not yet started its
\* publish holds no lock on the registry, so the writers of other threads
\* are free to run in between.
C27_CheckThenPublishUnlocked ==
  \A t \in Threads :
    pc[t] = "min_unlocked" =>
      /\ mutex_shared[t] = 0
      /\ call[t].op = "publish_if_min_subscribers"
      /\ CanLockUnique = (\A u \in Threads \ {t} : mutex_shared[u] = 0)

\* publish_if_min_subscribers(x, 2, 5) returned true although its publish
\* found the event without subscribers and entered no callback: another
\* thread removed them after the check.
C27_Witness ==
  /\ ret.call.op = "publish_if_min_subscribers"
  /\ ret.call.min_subscribers = 2
  /\ ret.value = TRUE
  /\ ret.invoked = <<>>
  /\ Len(issued) = 2

\* The ids of the wrappers of list v, in order.
IdsOf(v) == [i \in 1..Len(v) |-> v[i].id]

\* C28: a publish attempts the subscription list its event had when it
\* took the shared lock: while a thread holds the shared lock no step
\* changes the registry (the writers of other threads take effect after
\* it is released), a publish in its loop has entered the wrappers before
\* its position in that list, and when it returns it has entered the
\* whole list, in order.
C28_PublishSeesListAtLock ==
  [][ /\ (\E t \in Threads : mutex_shared[t] > 0) =>
           callbacks_map_' = callbacks_map_
      /\ \A t \in Threads :
           /\ pc'[t] = "publish_loop" =>
                /\ it'[t] \in 1..Len(ListOf(callbacks_map_', call'[t].eventName))
                /\ IdsOf(invoked'[t]) =
                     SubSeq(IdsOf(ListOf(callbacks_map_', call'[t].eventName)),
                            1, it'[t] - 1)
           /\ (pc[t] = "publish_loop" /\ pc'[t] = "idle") =>
                IdsOf(ret'.invoked) =
                  IdsOf(ListOf(callbacks_map_, call[t].eventName))
    ]_vars

\* Thread 1 is inside publish on a list of one subscriber, which it has
\* not yet entered, while the subscribe of thread 2 waits for the mutex.
C28_Witness ==
  /\ pc[1] = "publish_loop"
  /\ it[1] = 1
  /\ pc[2] = "subscribe_lock"
  /\ ~ CanLockUnique
  /\ Len(ListOf(callbacks_map_, ConcEvent)) = 1

\* C29: every publish that has started runs to completion, also a publish
\* whose callback publishes on the same bus while another thread waits for
\* the unique lock: a thread inside publish is later back at its caller.
C29_PublishCompletes ==
  \A t \in Threads :
    (call[t].op = "publish") ~> (call[t].op = "none" /\ pc[t] = "idle")

\* The operations that take the shared lock only.
ReadOps ==
  {"publish", "publish_if_min_subscribers", "isEventRegistered",
   "getCallbackCount", "getAllEventNames", "getStats"}

\* The step is taken by thread t inside one of the ReadOps: it starts or
\* continues a publish, or one of them returns.
ReadOnlyStep(t) ==
  \/ /\ pc[t] \in {"publish_loop", "min_unlocked"}
     /\ pc'[t] # pc[t] \/ it'[t] # it[t]
  \/ pc[t] = "idle" /\ pc'[t] \in {"publish_loop", "min_unlocked"}
  \/ pc[t] = "idle" /\ pc'[t] = "idle" /\ ret' # ret
       /\ ret'.call.op \in ReadOps

\* C30: publish, publish_if_min_subscribers, is_registered, callback_count,
\* all_event_names and get_stats leave the registry and the id counter as
\* they are, whether the callbacks match, do not match or raise and
\* whether the event is known or not.
C30_ReadOpsChangeNothing ==
  [][ (\E t \in Threads : ReadOnlyStep(t)) =>
        /\ callbacks_map_' = callbacks_map_
        /\ next_id_' = next_id_ ]_vars

\* A publish has returned after entering a callback that raised and
\* skipping one that did not match, and both are still subscribed.
C30_Witness ==
  /\ ret.call.op = "publish"
  /\ Len(RetList) = 2
  /\ Len(ret.invoked) = 1
  /\ \E i \in 1..2 :
       /\ RetList[i].kind = "throw"
       /\ Deliveries(RetList[i].id) # {}
  /\ next_id_ = 2

\* The numeric types of the published values and parameters.
NumericTypes == {"int", "double"}

\* C31: a numeric argument is accepted at a position whose parameter has
\* another numeric type it converts to: a subscriber whose parameters are
\* all numeric is entered exactly once by a publish of as many numeric
\* arguments, at least one of a type other than its parameter's, and
\* receives each value converted to the type of its parameter.
C31_NumericConversion ==
  ret.call.op = "publish" =>
    \A i \in 1..Len(RetList) :
      ( /\ Len(RetList[i].sig) = Len(ret.call.args)
        /\ Len(ret.call.args) >= 1
        /\ \A k \in 1..Len(ret.call.args) :
             /\ Decay(RetList[i].sig[k]) \in NumericTypes
             /\ ret.call.args[k].type \in NumericTypes
        /\ \E k \in 1..Len(ret.call.args) :
             ret.call.args[k].type # Decay(RetList[i].sig[k]) ) =>
        /\ Cardinality(Deliveries(RetList[i].id)) = 1
        /\ \A d \in Deliveries(RetList[i].id) :
             ret.invoked[d].vals =
               [k \in 1..Len(ret.call.args) |->
                  [type |-> Decay(RetList[i].sig[k]),
                   num |-> ret.call.args[k].num, text |-> ""]]

\* C32: in every state, also with several threads in subscribe for one
\* event at the same time, the ids in the list of each event are strictly
\* increasing: the order of the list is the order the ids were taken in.
C32_ListInIdOrder ==
  \A e \in 1..Len(callbacks_map_) :
    \A i, j \in 1..Len(callbacks_map_[e].second) :
      i < j => callbacks_map_[e].second[i].id < callbacks_map_[e].second[j].id

\* The places of the registry m: <<entry, position in its list>>.
Places(m) ==
  UNION { { <<i, j>> : j \in 1..Len(m[i].second) } : i \in 1..Len(m) }

\* C33: in every state each id stands at one place of the registry at
\* most (in one list, once), and every id stored is at least 1 and at most
\* the value of the id counter.
C33_StoredIdsUniqueAndBounded ==
  LET m == callbacks_map_ IN
  /\ \A p, q \in Places(m) :
       m[p[1]].second[p[2]].id = m[q[1]].second[q[2]].id => p = q
  /\ \A p \in Places(m) :
       /\ m[p[1]].second[p[2]].id >= 1
       /\ m[p[1]].second[p[2]].id <= next_id_

\* Both events hold a subscription, id 2 has been unsubscribed and the
\* counter stands at 3.
C33_Witness ==
  /\ IdsOf(ListOf(callbacks_map_, "x")) = <<1>>
  /\ IdsOf(ListOf(callbacks_map_, "y")) = <<3>>
  /\ next_id_ = 3
  /\ pc[1] = "idle"

\* C34: within one publish the callback of a subscriber is entered at most
\* once, also when it raises after the exact match: no id stands twice in
\* the log of a publish in progress or of the publish that returned last.
C34_AtMostOncePerPublish ==
  /\ \A t \in Threads :
       \A d, f \in 1..Len(invoked[t]) :
         invoked[t][d].id = invoked[t][f].id => d = f
  /\ ret.call.op = "publish" =>
       \A d, f \in 1..Len(ret.invoked) :
         ret.invoked[d].id = ret.invoked[f].id => d = f

\* A publish of an int has returned after entering, once, a callback
\* taking an int (the exact match) that raised.
C34_Witness ==
  /\ ret.call.op = "publish"
  /\ ret.call.args = <<IntV(1)>>
  /\ \E i \in 1..Len(RetList) :
       /\ RetList[i].sig = <<"int">>
       /\ RetList[i].kind = "throw"
       /\ Cardinality(Deliveries(RetList[i].id)) = 1

\* C35: verbose logging changes the diagnostics only: a bus constructed
\* with verbose logging and a bus constructed without, given the same
\* calls whatever setVerboseLogging was called with on either, have the
\* same registry and id counter, and their last call returned the same
\* value after entering the same callbacks with the same values in the
\* same order.
C35_VerboseChangesDiagnosticsOnly ==
  /\ bus["loud"].callbacks_map_ = bus["quiet"].callbacks_map_
  /\ bus["loud"].next_id_ = bus["quiet"].next_id_
  /\ bus["loud"].ret = bus["quiet"].ret

\* The loud bus has written the blocks of a publish that skipped one
\* subscriber and entered another, which raised; the quiet bus has written
\* nothing for the same publish.
C35_Witness ==
  /\ bus["loud"].verbose_logging_
  /\ ~ bus["quiet"].verbose_logging_
  /\ bus["loud"].ret.call.op = "publish"
  /\ Len(bus["loud"].ret.invoked) = 1
  /\ Len(bus["loud"].cout) = 4
  /\ bus["loud"].cout[4] = Line("Successfully called", 0)
  /\ bus["quiet"].cout = <<>>

====
